---- MODULE Spec2Model ----
(***************************************************************************)
(* The LIMIT plan of datafusion/src/physical_plan/limit.rs:                *)
(* GlobalLimitExec, LocalLimitExec, truncate_batch and LimitStream.        *)
(*                                                                         *)
(* A RecordBatch is a record [schema, columns]; a column is a sequence of  *)
(* cells.  A SendableRecordBatchStream is a record [schema, parts, waits]:  *)
(* parts holds, per merged input partition, the items it has yet to yield  *)
(* (a plain stream has one part) and waits is the number of polls it may   *)
(* still answer with not-ready.  Option, Result and Poll values are tagged *)
(* records.  The metrics recorder (BaselineMetrics) only observes:         *)
(* record_poll returns the poll it is given, so it carries no state here.  *)
(***************************************************************************)
EXTENDS Integers, Sequences, FiniteSets, TLC

VARIABLES
  plan,     \* the limit node under execution, or NoPlan
  streams,  \* the LimitStreams created so far, in creation order
  origin,   \* per LimitStream: the upstream stream it was built over
  log,      \* per LimitStream: one record per poll_next call made on it
  calls,    \* one record per execute call made on the node
  stats,    \* the last result of statistics(), or NoStats
  reply     \* the call of a state-free method or function under way: its
            \* arguments and, once it has returned, its result; or NoReply

vars == <<plan, streams, origin, log, calls, stats, reply>>

(***************************************************************************)
(* Bounds of the model.                                                    *)
(***************************************************************************)
MaxLimit == 3
MaxRows == 3
MaxBatches == 3
MaxPulls == 4
NumColumns == 2
MaxPartitions == 2
MaxPartRows == 2
MaxCalls == 2
MaxStatRows == 4
MaxChildren == 2

(***************************************************************************)
(* Option / Result / Poll values.                                          *)
(***************************************************************************)
None == [tag |-> "None"]
Some(v) == [tag |-> "Some", value |-> v]
Ok(b) == [tag |-> "Ok", batch |-> b]
Err(e) == [tag |-> "Err", err |-> e]
Pending == [tag |-> "Pending"]
Ready(x) == [tag |-> "Ready", item |-> x]
NotPolled == [tag |-> "NotPolled"]

NoPlan == [variant |-> "none"]
NoStats == [tag |-> "NoStats"]
NoReply == [call |-> "none"]
NotReturned == [tag |-> "NotReturned"]
Panic == [tag |-> "Panic"]

Errors == {"e1", "e2"}
\* a Schema is the sequence of its fields' data types; the cells of column c
\* are pairs <<c, row id>>, of data type c
TheSchema == [c \in 1..NumColumns |-> c]

Min(a, b) == IF a <= b THEN a ELSE b

(***************************************************************************)
(* Record batches.                                                         *)
(***************************************************************************)
\* the batch holding rows first+1 .. first+n of the upstream row sequence
MakeBatch(first, n) ==
  [schema |-> TheSchema,
   columns |-> [c \in 1..NumColumns |-> [i \in 1..n |-> <<c, first + i>>]]]

num_columns(batch) == Len(batch.columns)

num_rows(batch) == IF num_columns(batch) = 0 THEN 0 ELSE Len(batch.columns[1])

\* arrow::compute::limit: the first min(n, len) elements of the array
limit(array, n) == SubSeq(array, 1, Min(n, Len(array)))

\* RecordBatch::try_new: a batch needs at least one column, as many columns
\* as the schema has fields, columns of one length, cells of the field's type
RecordBatch_try_new(schema, columns) ==
  IF /\ columns # <<>>
     /\ Len(columns) = Len(schema)
     /\ \A i \in 1..Len(columns) :
          /\ Len(columns[i]) = Len(columns[1])
          /\ \A k \in 1..Len(columns[i]) : columns[i][k][1] = schema[i]
    THEN Ok([schema |-> schema, columns |-> columns])
    ELSE Err("InvalidArgumentError")

\* Result::unwrap
unwrap(result) == IF result.tag = "Ok" THEN result.batch ELSE Panic

\* truncate_batch limiting only the first column
truncate_batch_first_column(batch, n) ==
  LET limited_columns ==
        [i \in 1..num_columns(batch) |->
           IF i = 1 THEN limit(batch.columns[i], n) ELSE batch.columns[i]]
  IN  unwrap(RecordBatch_try_new(batch.schema, limited_columns))

\* truncate_batch keeping the last n rows of each column
truncate_batch_tail(batch, n) ==
  LET limited_columns ==
        [i \in 1..num_columns(batch) |->
           SubSeq(batch.columns[i],
                  Len(batch.columns[i]) - Min(n, Len(batch.columns[i])) + 1,
                  Len(batch.columns[i]))]
  IN  unwrap(RecordBatch_try_new(batch.schema, limited_columns))

\* Truncate a RecordBatch to maximum of n rows
truncate_batch(batch, n) ==
  LET limited_columns ==
        [i \in 1..num_columns(batch) |-> limit(batch.columns[i], n)]
  IN  unwrap(RecordBatch_try_new(batch.schema, limited_columns))

(***************************************************************************)
(* Upstream streams.  A script is a sequence of codes: [rows |-> n] is a   *)
(* batch of n rows, [err |-> e] a failure item.                            *)
(***************************************************************************)
RECURSIVE RowsBefore(_, _)
RowsBefore(codes, i) ==
  IF i <= 1 THEN 0
  ELSE RowsBefore(codes, i - 1)
       + (IF "rows" \in DOMAIN codes[i - 1] THEN codes[i - 1].rows ELSE 0)

\* the items a script yields, its rows numbered from base + 1
BuildScriptFrom(base, codes) ==
  [i \in 1..Len(codes) |->
     IF "rows" \in DOMAIN codes[i]
       THEN Ok(MakeBatch(base + RowsBefore(codes, i), codes[i].rows))
       ELSE Err(codes[i].err)]

BuildScript(codes) == BuildScriptFrom(0, codes)

PlainStream(script, waits) ==
  [schema |-> TheSchema, parts |-> <<script>>, waits |-> waits]

\* an upstream stream without end: it yields non-empty batches for ever;
\* yielded is the number of rows it has yielded so far
EndlessStream(waits) ==
  [schema |-> TheSchema, parts |-> <<>>, waits |-> waits, yielded |-> 0]

IsEndless(input) == "yielded" \in DOMAIN input

\* the outcomes one poll of an upstream stream can have: not ready, the next
\* item of one of its parts, the next batch of an endless stream, or
\* end-of-sequence once every part is drained
poll_next_unpin(input) ==
  (IF input.waits > 0
     THEN {[poll |-> Pending, input |-> [input EXCEPT !.waits = @ - 1]]}
     ELSE {})
  \cup {[poll |-> Ready(Head(input.parts[i])),
         input |-> [input EXCEPT !.parts[i] = Tail(@)]] :
          i \in {j \in 1..Len(input.parts) : input.parts[j] # <<>>}}
  \cup (IF IsEndless(input)
          THEN {[poll |-> Ready(Ok(MakeBatch(input.yielded, n))),
                 input |-> [input EXCEPT !.yielded = @ + n]] : n \in 1..MaxRows}
          ELSE {})
  \cup (IF ~IsEndless(input) /\ \A j \in 1..Len(input.parts) : input.parts[j] = <<>>
          THEN {[poll |-> Ready(None), input |-> input]}
          ELSE {})

(***************************************************************************)
(* LimitStream.                                                            *)
(***************************************************************************)
LimitStream_new(input, lim) ==
  [limit |-> lim, input |-> Some(input), schema |-> input.schema, current_len |-> 0]

\* stream_limit forwarding the overshooting batch whole instead of truncated
stream_limit_whole(self, batch) ==
  IF self.current_len = self.limit
    THEN [self |-> [self EXCEPT !.input = None], ret |-> None]
    ELSE IF self.current_len + num_rows(batch) <= self.limit
      THEN [self |-> [self EXCEPT !.current_len = @ + num_rows(batch)],
            ret |-> Some(batch)]
      ELSE [self |-> [self EXCEPT !.current_len = self.limit, !.input = None],
            ret |-> Some(batch)]

\* stream_limit taking the truncating branch also for a batch that lands
\* exactly on the limit
stream_limit_strict(self, batch) ==
  IF self.current_len = self.limit
    THEN [self |-> [self EXCEPT !.input = None], ret |-> None]
    ELSE IF self.current_len + num_rows(batch) < self.limit
      THEN [self |-> [self EXCEPT !.current_len = @ + num_rows(batch)],
            ret |-> Some(batch)]
      ELSE [self |-> [self EXCEPT !.current_len = self.limit, !.input = None],
            ret |-> Some(truncate_batch(batch, self.limit - self.current_len))]

\* stream_limit counting the whole overshooting batch into current_len
stream_limit_overcount(self, batch) ==
  IF self.current_len = self.limit
    THEN [self |-> [self EXCEPT !.input = None], ret |-> None]
    ELSE IF self.current_len + num_rows(batch) <= self.limit
      THEN [self |-> [self EXCEPT !.current_len = @ + num_rows(batch)],
            ret |-> Some(batch)]
      ELSE [self |-> [self EXCEPT !.current_len = @ + num_rows(batch), !.input = None],
            ret |-> Some(truncate_batch(batch, self.limit - self.current_len))]

\* stream_limit keeping the upstream handle when it suppresses a batch
stream_limit_keep_on_suppress(self, batch) ==
  IF self.current_len = self.limit
    THEN [self |-> self, ret |-> None]
    ELSE IF self.current_len + num_rows(batch) <= self.limit
      THEN [self |-> [self EXCEPT !.current_len = @ + num_rows(batch)],
            ret |-> Some(batch)]
      ELSE [self |-> [self EXCEPT !.current_len = self.limit, !.input = None],
            ret |-> Some(truncate_batch(batch, self.limit - self.current_len))]

\* returns the updated stream and the Option<RecordBatch> to forward
stream_limit(self, batch) ==
  IF self.current_len = self.limit
    THEN [self |-> [self EXCEPT !.input = None], ret |-> None]
    ELSE IF self.current_len + num_rows(batch) <= self.limit
      THEN [self |-> [self EXCEPT !.current_len = @ + num_rows(batch)],
            ret |-> Some(batch)]
      ELSE [self |-> [self EXCEPT !.current_len = self.limit, !.input = None],
            ret |-> Some(truncate_batch(batch, self.limit - self.current_len))]

\* Ok(opt).transpose(): Option<RecordBatch> to Option<Result<RecordBatch>>
transpose(opt) == IF opt = None THEN None ELSE Ok(opt.value)

\* poll_next with one arm of the match on the upstream item changed:
\* onEnd(polled) is the stream left by an upstream end-of-sequence and
\* onErr(e) the failure returned for an upstream failure e
poll_next_with(self, onEnd(_), onErr(_)) ==
  IF self.input = None
    THEN {[self |-> self, up |-> NotPolled, poll |-> Ready(None)]}
    ELSE {LET polled == [self EXCEPT !.input = Some(o.input)]
          IN  IF o.poll.tag = "Ready" /\ o.poll.item.tag = "Ok"
                THEN LET r == stream_limit(polled, o.poll.item.batch)
                     IN  [self |-> r.self, up |-> o.poll,
                          poll |-> Ready(transpose(r.ret))]
                ELSE IF o.poll.tag = "Ready" /\ o.poll.item.tag = "None"
                  THEN [self |-> onEnd(polled), up |-> o.poll, poll |-> o.poll]
                ELSE IF o.poll.tag = "Ready" /\ o.poll.item.tag = "Err"
                  THEN [self |-> polled, up |-> o.poll,
                        poll |-> Ready(Err(onErr(o.poll.item.err)))]
                ELSE [self |-> polled, up |-> o.poll, poll |-> o.poll] :
          o \in poll_next_unpin(self.input.value)}

Same(x) == x
ClearInput(self) == [self EXCEPT !.input = None]
WrapErr(e) == "e1"

\* poll_next dropping the upstream handle when upstream ends
poll_next_release_on_end(self) == poll_next_with(self, ClearInput, Same)

\* poll_next replacing the upstream failure by one of its own
poll_next_wrap_err(self) == poll_next_with(self, Same, WrapErr)

\* poll_next answering not-ready once the input has been cleared
poll_next_pending_when_cleared(self) ==
  IF self.input = None
    THEN {[self |-> self, up |-> NotPolled, poll |-> Pending]}
    ELSE poll_next_with(self, Same, Same)

\* poll_next dropping the upstream handle when upstream fails
poll_next_release_on_err(self) ==
  {IF o.up.tag = "Ready" /\ o.up.item.tag = "Err"
     THEN [o EXCEPT !.self = ClearInput(@)]
     ELSE o : o \in poll_next_with(self, Same, Same)}

\* poll_next turning an upstream not-ready into end-of-sequence
poll_next_end_on_pending(self) ==
  {IF o.up = Pending THEN [o EXCEPT !.poll = Ready(None)] ELSE o :
     o \in poll_next_with(self, Same, Same)}

\* poll_next answering not-ready when upstream has ended
poll_next_pending_on_end(self) ==
  {IF o.up.tag = "Ready" /\ o.up.item.tag = "None"
     THEN [o EXCEPT !.poll = Pending]
     ELSE o : o \in poll_next_with(self, Same, Same)}

\* the outcomes of one poll of the LimitStream: the stream after the poll, what
\* upstream answered (NotPolled when it was not asked) and the poll returned
poll_next(self) ==
  IF self.input = None
    THEN {[self |-> self, up |-> NotPolled, poll |-> Ready(None)]}
    ELSE {LET polled == [self EXCEPT !.input = Some(o.input)]
          IN  IF o.poll.tag = "Ready" /\ o.poll.item.tag = "Ok"
                THEN LET r == stream_limit(polled, o.poll.item.batch)
                     IN  [self |-> r.self, up |-> o.poll,
                          poll |-> Ready(transpose(r.ret))]
                ELSE [self |-> polled, up |-> o.poll, poll |-> o.poll] :
          o \in poll_next_unpin(self.input.value)}

(***************************************************************************)
(* The consumer pulls stream s once.                                       *)
(***************************************************************************)
PullRecord(pre, o) ==
  [pre_len |-> pre.current_len, pre_input |-> pre.input # None,
   up |-> o.up, ret |-> o.poll,
   post_len |-> o.self.current_len, post_input |-> o.self.input # None]

RECURSIVE PullsFrom(_, _)
PullsFrom(logs, i) ==
  IF i > Len(logs) THEN 0 ELSE Len(logs[i]) + PullsFrom(logs, i + 1)

\* the number of pulls made so far on all streams
TotalPulls == PullsFrom(log, 1)

Pull(s) ==
  /\ s \in 1..Len(streams)
  /\ TotalPulls < MaxPulls
  /\ \E o \in poll_next(streams[s]) :
       /\ streams' = [streams EXCEPT ![s] = o.self]
       /\ log' = [log EXCEPT ![s] = Append(@, PullRecord(streams[s], o))]
  /\ UNCHANGED <<plan, origin, calls, stats, reply>>

(***************************************************************************)
(* One LimitStream built directly over an upstream stream, as in           *)
(* tests::limit_early_shutdown.                                            *)
(***************************************************************************)
Codes == {[rows |-> n] : n \in 0..MaxRows} \cup {[err |-> e] : e \in Errors}

Scripts == UNION {[1..n -> Codes] : n \in 0..MaxBatches}

\* the batches of tests::limit_early_shutdown
TestCodes == <<[rows |-> 5], [rows |-> 10], [rows |-> 15], [rows |-> 20], [rows |-> 25]>>
TestLimit == 6

Init ==
  /\ plan = NoPlan
  /\ \E lim \in (0..MaxLimit) \cup {TestLimit}, codes \in Scripts \cup {TestCodes} :
       /\ \/ lim \in 0..MaxLimit /\ codes \in Scripts
          \/ lim = TestLimit /\ codes = TestCodes
       /\ origin = <<PlainStream(BuildScript(codes), MaxPulls)>>
       /\ streams = <<LimitStream_new(origin[1], lim)>>
  /\ log = <<<<>>>>
  /\ calls = <<>>
  /\ stats = NoStats
  /\ reply = NoReply

Next == \E s \in 1..Len(streams) : Pull(s)

Spec == Init /\ [][Next]_vars

(***************************************************************************)
(* A consumer that keeps pulling one LimitStream, over an upstream that    *)
(* is finite or endless and answers not-ready only finitely often.  The    *)
(* upstream's not-ready answers are kept few enough for the MaxPulls pulls *)
(* of the model to reach the end of the run.                               *)
(***************************************************************************)
InitLive ==
  /\ plan = NoPlan
  /\ \E lim \in 0..MaxLimit :
       /\ \/ \E codes \in Scripts, waits \in 0..MaxPulls :
               /\ waits + Len(codes) + 1 <= MaxPulls
               /\ origin = <<PlainStream(BuildScript(codes), waits)>>
          \/ \E waits \in 0..MaxPulls :
               /\ waits + lim + 1 <= MaxPulls
               /\ origin = <<EndlessStream(waits)>>
       /\ streams = <<LimitStream_new(origin[1], lim)>>
  /\ log = <<<<>>>>
  /\ calls = <<>>
  /\ stats = NoStats
  /\ reply = NoReply

\* the consumer keeps pulling: a pull that can be made is eventually made
SpecLive == InitLive /\ [][Next]_vars /\ WF_vars(Next)

(***************************************************************************)
(* The child plan of a limit node: the stream each of its output           *)
(* partitions yields when executed, and its statistics.                    *)
(***************************************************************************)
Internal(msg) == [kind |-> "Internal", msg |-> msg]
ChildFailure == [kind |-> "Execution", msg |-> "child failed"]
OkStream(st) == [tag |-> "Ok", stream |-> st]

Statistics_default ==
  [num_rows |-> None, total_byte_size |-> None, column_statistics |-> None,
   is_exact |-> FALSE]

\* healthy: whether executing one of its partitions succeeds
ChildPlan(partitions, statistics, healthy) ==
  [partitions |-> partitions, statistics |-> statistics, healthy |-> healthy]

\* self.input.output_partitioning().partition_count()
partition_count(child) == Len(child.partitions)

\* the result of self.input.execute(p): the stream of partition p, or a
\* failure of the child (always so when p is not one of its partitions)
child_execute(child, p) ==
  IF p >= partition_count(child)
    THEN Err(Internal("child invalid partition"))
    ELSE IF child.healthy
      THEN OkStream(child.partitions[p + 1])
      ELSE Err(ChildFailure)

\* CoalescePartitionsExec over the partitions with the given scripts: one
\* output partition that yields their items merged in any order
Coalesced(scripts) == <<[schema |-> TheSchema, parts |-> scripts, waits |-> 0]>>

\* a child whose i-th output partition yields the i-th script
Partitioned(scripts) == [i \in 1..Len(scripts) |-> PlainStream(scripts[i], 0)]

(***************************************************************************)
(* GlobalLimitExec and LocalLimitExec.  execute gives [ret, child_calls]:   *)
(* the Result returned and the child partitions it executed on the way.    *)
(***************************************************************************)
GlobalLimitExec_new(input, lim) == [variant |-> "global", input |-> input, limit |-> lim]

LocalLimitExec_new(input, lim) == [variant |-> "local", input |-> input, limit |-> lim]

\* self.input.execute(p).await? followed by Ok(Box::pin(LimitStream::new(..)))
ExecuteChildAndWrap(self, p) ==
  LET r == child_execute(self.input, p)
  IN  [ret |-> IF r.tag = "Ok" THEN OkStream(LimitStream_new(r.stream, self.limit)) ELSE r,
       child_calls |-> <<p>>]

\* GlobalLimitExec::execute without the check of the child's partition count
GlobalLimitExec_execute_unchecked(self, partition) ==
  IF 0 # partition
    THEN [ret |-> Err(Internal("GlobalLimitExec invalid partition")),
          child_calls |-> <<>>]
    ELSE ExecuteChildAndWrap(self, 0)

GlobalLimitExec_execute(self, partition) ==
  IF 0 # partition
    THEN [ret |-> Err(Internal("GlobalLimitExec invalid partition")),
          child_calls |-> <<>>]
    ELSE IF 1 # partition_count(self.input)
      THEN [ret |-> Err(Internal("GlobalLimitExec requires a single input partition")),
            child_calls |-> <<>>]
      ELSE ExecuteChildAndWrap(self, 0)

\* LocalLimitExec::execute asking the child for partition 0 whatever is requested
LocalLimitExec_execute_first(self, partition) == ExecuteChildAndWrap(self, 0)

LocalLimitExec_execute(self, partition) == ExecuteChildAndWrap(self, partition)

\* GlobalLimitExec::statistics passing the child's statistics through only
\* when the child has strictly fewer rows than the limit
GlobalLimitExec_statistics_strict(self) ==
  LET input_stats == self.input.statistics
  IN  IF input_stats.num_rows # None /\ input_stats.num_rows.value < self.limit
        THEN input_stats
        ELSE IF input_stats.num_rows # None /\ input_stats.num_rows.value >= self.limit
          THEN [Statistics_default EXCEPT !.num_rows = Some(self.limit),
                                          !.is_exact = input_stats.is_exact]
          ELSE Statistics_default

GlobalLimitExec_statistics(self) ==
  LET input_stats == self.input.statistics
  IN  IF input_stats.num_rows # None /\ input_stats.num_rows.value <= self.limit
        THEN input_stats
        ELSE IF input_stats.num_rows # None /\ input_stats.num_rows.value > self.limit
          THEN [Statistics_default EXCEPT !.num_rows = Some(self.limit),
                                          !.is_exact = input_stats.is_exact]
          ELSE Statistics_default

LocalLimitExec_statistics(self) ==
  LET input_stats == self.input.statistics
  IN  IF input_stats.num_rows # None /\ input_stats.num_rows.value <= self.limit
        THEN input_stats
        ELSE IF input_stats.num_rows # None /\ input_stats.num_rows.value > self.limit
          THEN [Statistics_default EXCEPT !.num_rows = Some(self.limit),
                                          !.is_exact = input_stats.is_exact]
          ELSE Statistics_default

\* the ExecutionPlan trait object dispatches on the node's type
execute(self, partition) ==
  IF self.variant = "global"
    THEN GlobalLimitExec_execute(self, partition)
    ELSE LocalLimitExec_execute(self, partition)

statistics(self) ==
  IF self.variant = "global"
    THEN GlobalLimitExec_statistics(self)
    ELSE LocalLimitExec_statistics(self)

(***************************************************************************)
(* Partitioning, distribution and child replacement.  A Partitioning is a  *)
(* record [kind, n] with n its partition count.                            *)
(***************************************************************************)
UnknownPartitioning(n) == [kind |-> "UnknownPartitioning", n |-> n]
SinglePartition == [kind |-> "SinglePartition"]
UnspecifiedDistribution == [kind |-> "UnspecifiedDistribution"]
OkPlan(node) == [tag |-> "Ok", plan |-> node]

\* Partitioning::partition_count
Partitioning_partition_count(partitioning) == partitioning.n

\* self.input.output_partitioning(): what the child declares, or unknown
\* partitioning over its partitions when it declares nothing
child_output_partitioning(child) ==
  IF "partitioning" \in DOMAIN child
    THEN child.partitioning
    ELSE UnknownPartitioning(Len(child.partitions))

GlobalLimitExec_required_child_distribution(self) == SinglePartition

\* GlobalLimitExec handing on the partitioning of its child
GlobalLimitExec_output_partitioning_of_child(self) ==
  child_output_partitioning(self.input)

GlobalLimitExec_output_partitioning(self) == UnknownPartitioning(1)

\* GlobalLimitExec accepting any non-empty list of children
GlobalLimitExec_with_new_children_first(self, children) ==
  IF Len(children) >= 1
    THEN OkPlan(GlobalLimitExec_new(children[1], self.limit))
    ELSE Err(Internal("GlobalLimitExec wrong number of children"))

GlobalLimitExec_with_new_children(self, children) ==
  IF Len(children) = 1
    THEN OkPlan(GlobalLimitExec_new(children[1], self.limit))
    ELSE Err(Internal("GlobalLimitExec wrong number of children"))

\* LocalLimitExec does not override required_child_distribution: the default
\* of the ExecutionPlan trait applies
LocalLimitExec_required_child_distribution(self) == UnspecifiedDistribution

LocalLimitExec_output_partitioning(self) == child_output_partitioning(self.input)

LocalLimitExec_with_new_children(self, children) ==
  IF Len(children) = 1
    THEN OkPlan(LocalLimitExec_new(children[1], self.limit))
    ELSE Err(Internal("LocalLimitExec wrong number of children"))

required_child_distribution(self) ==
  IF self.variant = "global"
    THEN GlobalLimitExec_required_child_distribution(self)
    ELSE LocalLimitExec_required_child_distribution(self)

output_partitioning(self) ==
  IF self.variant = "global"
    THEN GlobalLimitExec_output_partitioning(self)
    ELSE LocalLimitExec_output_partitioning(self)

with_new_children(self, children) ==
  IF self.variant = "global"
    THEN GlobalLimitExec_with_new_children(self, children)
    ELSE LocalLimitExec_with_new_children(self, children)

(***************************************************************************)
(* A caller executes partition p of the node; a stream it gets back joins  *)
(* the streams the consumers pull from.                                    *)
(***************************************************************************)
Execute(p) ==
  /\ plan # NoPlan
  /\ Len(calls) < MaxCalls
  /\ LET o == execute(plan, p)
     IN
       IF o.ret.tag = "Ok"
         THEN /\ streams' = Append(streams, o.ret.stream)
              /\ origin' = Append(origin, o.ret.stream.input.value)
              /\ log' = Append(log, <<>>)
              /\ calls' = Append(calls, [partition |-> p, child_calls |-> o.child_calls,
                                         ret |-> o.ret, id |-> Len(streams) + 1])
         ELSE /\ calls' = Append(calls, [partition |-> p, child_calls |-> o.child_calls,
                                         ret |-> o.ret, id |-> 0])
              /\ UNCHANGED <<streams, origin, log>>
  /\ UNCHANGED <<plan, stats, reply>>

\* the optimizer asks the node for its statistics
Statistics ==
  /\ plan # NoPlan
  /\ stats = NoStats
  /\ stats' = Some(statistics(plan))
  /\ UNCHANGED <<plan, streams, origin, log, calls, reply>>

(***************************************************************************)
(* Limit nodes over bounded children.                                      *)
(***************************************************************************)
\* the scripts of input partitions with the given row counts: as in
\* tests::limit a partition fits one batch (none when it has no rows), and
\* the rows of the partitions are numbered apart
PartItems(rows) ==
  [i \in 1..Len(rows) |->
     IF rows[i] = 0 THEN <<>>
     ELSE BuildScriptFrom((i - 1) * MaxPartRows, <<[rows |-> rows[i]]>>)]

PartitionRows == UNION {[1..P -> 0..MaxPartRows] : P \in 0..MaxPartitions}

\* children that consolidate their input partitions into one
CoalescedChildren ==
  {ChildPlan(Coalesced(PartItems(rows)), Statistics_default, h) :
     rows \in PartitionRows, h \in BOOLEAN}

\* children that hand their input partitions on as they are
PartitionedChildren ==
  {ChildPlan(Partitioned(PartItems(rows)), Statistics_default, h) :
     rows \in PartitionRows, h \in BOOLEAN}

\* tests::limit: 100 rows in 4 partitions under CoalescePartitionsExec
TestNumPartitions == 4
TestTotalRows == 100
TestGlobalLimit == 7
TestChild ==
  ChildPlan(Coalesced([i \in 1..TestNumPartitions |->
              BuildScriptFrom((i - 1) * (TestTotalRows \div TestNumPartitions),
                              <<[rows |-> TestTotalRows \div TestNumPartitions]>>)]),
            Statistics_default, TRUE)

InitNode(nodes) ==
  /\ plan \in nodes
  /\ streams = <<>>
  /\ origin = <<>>
  /\ log = <<>>
  /\ calls = <<>>
  /\ stats = NoStats
  /\ reply = NoReply

InitGlobal ==
  InitNode({GlobalLimitExec_new(c, lim) :
              c \in CoalescedChildren \cup PartitionedChildren, lim \in 0..MaxLimit}
           \cup {GlobalLimitExec_new(TestChild, TestGlobalLimit)})

InitLocal ==
  InitNode({LocalLimitExec_new(c, lim) : c \in PartitionedChildren, lim \in 0..MaxLimit})

NextNode ==
  \/ \E p \in 0..MaxPartitions : Execute(p)
  \/ \E s \in 1..Len(streams) : Pull(s)

SpecGlobal == InitGlobal /\ [][NextNode]_vars

SpecLocal == InitLocal /\ [][NextNode]_vars

\* the child statistics the estimator is tried on
StatCounts == {None} \cup {Some(n) : n \in 0..MaxStatRows}
StatBytes == {None, Some(0), Some(1)}
StatColumns == {None, Some(<<"c1", "c2">>)}
ChildStatistics ==
  [num_rows : StatCounts, total_byte_size : StatBytes,
   column_statistics : StatColumns, is_exact : BOOLEAN]

InitStats ==
  InitNode({GlobalLimitExec_new(ChildPlan(<<>>, st, TRUE), lim) :
              st \in ChildStatistics, lim \in 0..MaxLimit}
           \cup {LocalLimitExec_new(ChildPlan(<<>>, st, TRUE), lim) :
              st \in ChildStatistics, lim \in 0..MaxLimit})

SpecStats == InitStats /\ [][Statistics]_vars

(***************************************************************************)
(* What the log of a stream shows.                                         *)
(***************************************************************************)
(***************************************************************************)
(* The planner asks a node for its partitioning and its distribution       *)
(* requirement, and rebuilds it over new children.                         *)
(***************************************************************************)
Partitionings ==
  {[kind |-> k, n |-> n] :
     k \in {"UnknownPartitioning", "RoundRobinBatch", "Hash"}, n \in 0..MaxPartitions}

\* a child that declares its output partitioning
DeclaredChild(partitioning) ==
  [partitions |-> [i \in 1..partitioning.n |-> PlainStream(<<>>, 0)],
   statistics |-> Statistics_default, healthy |-> TRUE,
   partitioning |-> partitioning]

DeclaredChildren == {DeclaredChild(pt) : pt \in Partitionings}

\* the children a node is rebuilt over
NewChildren == {DeclaredChild(UnknownPartitioning(n)) : n \in 0..MaxPartitions}

ChildLists ==
  UNION {[1..k -> NewChildren] : k \in 0..MaxChildren}

InitPlanner ==
  InitNode({GlobalLimitExec_new(c, lim) : c \in DeclaredChildren, lim \in 0..MaxLimit}
           \cup {LocalLimitExec_new(c, lim) : c \in DeclaredChildren, lim \in 0..MaxLimit})

OutputPartitioning ==
  /\ plan # NoPlan
  /\ reply.call # "output_partitioning"
  /\ reply' = [call |-> "output_partitioning", ret |-> output_partitioning(plan)]
  /\ UNCHANGED <<plan, streams, origin, log, calls, stats>>

RequiredChildDistribution ==
  /\ plan # NoPlan
  /\ reply.call # "required_child_distribution"
  /\ reply' = [call |-> "required_child_distribution",
               ret |-> required_child_distribution(plan)]
  /\ UNCHANGED <<plan, streams, origin, log, calls, stats>>

WithNewChildren(children) ==
  /\ plan # NoPlan
  /\ reply.call # "with_new_children"
  /\ reply' = [call |-> "with_new_children", children |-> children,
               ret |-> with_new_children(plan, children)]
  /\ UNCHANGED <<plan, streams, origin, log, calls, stats>>

NextPlanner ==
  \/ OutputPartitioning
  \/ RequiredChildDistribution
  \/ \E children \in ChildLists : WithNewChildren(children)

SpecPlanner == InitPlanner /\ [][NextPlanner]_vars

(***************************************************************************)
(* truncate_batch applied to a batch and a row count.                      *)
(***************************************************************************)
InitTruncate ==
  /\ plan = NoPlan
  /\ streams = <<>>
  /\ origin = <<>>
  /\ log = <<>>
  /\ calls = <<>>
  /\ stats = NoStats
  /\ \E first \in 0..(MaxRows * MaxBatches), rows \in 0..MaxRows,
        n \in 0..(MaxRows + 1) :
       reply = [call |-> "truncate_batch", batch |-> MakeBatch(first, rows),
                n |-> n, ret |-> NotReturned]

Truncate ==
  /\ reply.call = "truncate_batch"
  /\ reply.ret = NotReturned
  /\ reply' = [reply EXCEPT !.ret = truncate_batch(reply.batch, reply.n)]
  /\ UNCHANGED <<plan, streams, origin, log, calls, stats>>

SpecTruncate == InitTruncate /\ [][Truncate]_vars

RECURSIVE SumRows(_)
SumRows(batches) ==
  IF batches = <<>> THEN 0 ELSE num_rows(Head(batches)) + SumRows(Tail(batches))

IsBatch(poll) == poll.tag = "Ready" /\ poll.item.tag = "Ok"
IsErr(poll) == poll.tag = "Ready" /\ poll.item.tag = "Err"
IsEnd(poll) == poll.tag = "Ready" /\ poll.item.tag = "None"

RECURSIVE Batches(_)
Batches(polls) ==
  IF polls = <<>> THEN <<>>
  ELSE (IF IsBatch(Head(polls)) THEN <<Head(polls).item.batch>> ELSE <<>>)
       \o Batches(Tail(polls))

\* the batches stream s forwarded to its consumer, in order
Forwarded(s) == Batches([i \in 1..Len(log[s]) |-> log[s][i].ret])

\* the batches stream s received from upstream, in order
Received(s) == Batches([i \in 1..Len(log[s]) |-> log[s][i].up])

\* the number of polls of upstream made by stream s
UpstreamPolls(s) == Cardinality({i \in 1..Len(log[s]) : log[s][i].up # NotPolled})

ItemsOf(input) == UNION {{input.parts[i][k] : k \in 1..Len(input.parts[i])} :
                         i \in 1..Len(input.parts)}

FailureFree(input) == \A it \in ItemsOf(input) : it.tag = "Ok"

RECURSIVE PartRows(_)
PartRows(script) ==
  IF script = <<>> THEN 0
  ELSE (IF Head(script).tag = "Ok" THEN num_rows(Head(script).batch) ELSE 0)
       + PartRows(Tail(script))

RECURSIVE TotalRowsFrom(_, _)
TotalRowsFrom(parts, i) ==
  IF i > Len(parts) THEN 0 ELSE PartRows(parts[i]) + TotalRowsFrom(parts, i + 1)

total_input_rows(input) == TotalRowsFrom(input.parts, 1)

SignalledEnd(s) == \E i \in 1..Len(log[s]) : IsEnd(log[s][i].ret)

Ids == 1..Len(streams)

(***************************************************************************)
(* Claims.                                                                 *)
(***************************************************************************)

\* C1: a LimitStream over a failure-free finite upstream that has been pulled
\* until it signalled end-of-sequence has forwarded batches whose row counts
\* sum to exactly min(limit, total_input_rows).
C1_TotalRowsIsMin ==
  \A s \in Ids :
    (FailureFree(origin[s]) /\ SignalledEnd(s))
      => SumRows(Forwarded(s)) = Min(streams[s].limit, total_input_rows(origin[s]))

\* the stream of tests::limit_early_shutdown has been drained: 6 of 75 rows
C1_Witness ==
  \E s \in Ids :
    /\ streams[s].limit = TestLimit
    /\ total_input_rows(origin[s]) = 75
    /\ SignalledEnd(s)
    /\ SumRows(Forwarded(s)) = 6

C2_Original ==
  \A s \in Ids : \A i \in 1..Len(log[s]) :
    (log[s][i].pre_len < streams[s].limit /\ log[s][i].post_len = streams[s].limit)
      => /\ ~log[s][i].post_input
         /\ streams[s].input = None
         /\ \A j \in (i + 1)..Len(log[s]) : log[s][j].up = NotPolled

\* C4 as stated: at most one batch is forwarded changed; an upstream batch with
\* running count + rows > limit is forwarded with exactly limit - running
\* count rows and the handle is released in that pull; every batch received
\* before it was forwarded unchanged and upstream is not polled after it.
C4_Original ==
  \A s \in Ids :
    /\ Cardinality({i \in 1..Len(log[s]) :
                      IsBatch(log[s][i].up) /\ IsBatch(log[s][i].ret)
                      /\ log[s][i].ret # log[s][i].up}) <= 1
    /\ \A i \in 1..Len(log[s]) :
         (/\ IsBatch(log[s][i].up)
          /\ log[s][i].pre_len + num_rows(log[s][i].up.item.batch) > streams[s].limit)
           => /\ IsBatch(log[s][i].ret)
              /\ num_rows(log[s][i].ret.item.batch) = streams[s].limit - log[s][i].pre_len
              /\ ~log[s][i].post_input
              /\ \A k \in 1..(i - 1) :
                   IsBatch(log[s][k].up) => log[s][k].ret = log[s][k].up
              /\ \A j \in (i + 1)..Len(log[s]) : log[s][j].up = NotPolled

\* C5 as stated: with limit 0 the first pull releases the upstream handle
\* whatever upstream answers, no batch is ever forwarded and upstream is not
\* polled after the first pull.
C5_Original ==
  \A s \in Ids :
    (streams[s].limit = 0 /\ Len(log[s]) >= 1)
      => /\ ~log[s][1].post_input
         /\ Forwarded(s) = <<>>
         /\ \A j \in 2..Len(log[s]) : log[s][j].up = NotPolled

\* C9: a failure item of upstream is returned by the same pull unchanged, that
\* pull leaves the running count unchanged, and every failure the stream
\* returns is the one upstream produced in that pull.
C9_FailurePassThrough ==
  \A s \in Ids : \A i \in 1..Len(log[s]) :
    /\ IsErr(log[s][i].up)
         => /\ log[s][i].ret = log[s][i].up
            /\ log[s][i].post_len = log[s][i].pre_len
    /\ IsErr(log[s][i].ret) => log[s][i].up = log[s][i].ret

\* upstream failed with e2 after the stream had forwarded rows
C9_Witness ==
  \E s \in Ids : \E i \in 1..Len(log[s]) :
    /\ log[s][i].up = Ready(Err("e2"))
    /\ log[s][i].ret = Ready(Err("e2"))
    /\ log[s][i].pre_len > 0

\* C6: GlobalLimitExec::execute(p) returns an internal error, without executing
\* the child and without creating a stream, when p is not 0 or the child does
\* not declare exactly one partition; otherwise it executes partition 0 of the
\* child, and the stream the child yields comes back wrapped in a LimitStream
\* with the node's limit and running count 0 (a failure of the child's own
\* execute comes back as it is).
C6_GlobalExecute ==
  /\ Len(streams) = Cardinality({k \in 1..Len(calls) : calls[k].ret.tag = "Ok"})
  /\ \A k \in 1..Len(calls) :
       LET c == calls[k]
       IN  IF c.partition # 0 \/ partition_count(plan.input) # 1
             THEN /\ c.ret.tag = "Err"
                  /\ c.ret.err.kind = "Internal"
                  /\ c.child_calls = <<>>
                  /\ c.id = 0
             ELSE /\ c.child_calls = <<0>>
                  /\ c.ret.tag = "Err"
                       => (~plan.input.healthy /\ c.ret.err = ChildFailure /\ c.id = 0)
                  /\ c.ret.tag = "Ok"
                       => /\ c.ret.stream.limit = plan.limit
                          /\ c.ret.stream.current_len = 0
                          /\ c.ret.stream.input = Some(plan.input.partitions[1])
                          /\ c.id \in 1..Len(streams)

\* over a child with one partition, a request for partition 1 failed and a
\* request for partition 0 returned a stream
C6_Witness ==
  /\ plan.variant = "global"
  /\ partition_count(plan.input) = 1
  /\ \E j, k \in 1..Len(calls) :
       /\ calls[j].partition = 1 /\ calls[j].ret.tag = "Err"
       /\ calls[k].partition = 0 /\ calls[k].ret.tag = "Ok"

\* C7: for the local and the global node alike, with child row count r and
\* limit L: r known and r <= L gives the child's statistics; r known and r > L
\* gives num_rows = L, the child's is_exact and every other field unknown; r
\* unknown gives the default statistics; and the two nodes agree.
C7_Statistics ==
  stats # NoStats =>
    LET in == plan.input.statistics
        out == stats.value
    IN  /\ (in.num_rows # None /\ in.num_rows.value <= plan.limit) => out = in
        /\ (in.num_rows # None /\ in.num_rows.value > plan.limit)
             => /\ out.num_rows = Some(plan.limit)
                /\ out.is_exact = in.is_exact
                /\ out.total_byte_size = None
                /\ out.column_statistics = None
        /\ in.num_rows = None
             => /\ out = Statistics_default
                /\ out.num_rows = None
                /\ out.total_byte_size = None
                /\ out.column_statistics = None
        /\ GlobalLimitExec_statistics(plan) = LocalLimitExec_statistics(plan)

\* the limit binds on an exact child whose other statistics are known
C7_Witness ==
  /\ stats # NoStats
  /\ plan.input.statistics.num_rows # None
  /\ plan.input.statistics.num_rows.value > plan.limit
  /\ plan.input.statistics.is_exact
  /\ plan.input.statistics.total_byte_size # None
  /\ stats.value.num_rows = Some(plan.limit)
  /\ stats.value.is_exact
  /\ stats.value.total_byte_size = None

C10_LocalIndependent ==
  /\ [](/\ \A k \in 1..Len(calls) :
             /\ calls[k].child_calls = <<calls[k].partition>>
             /\ calls[k].ret.tag = "Ok"
                  => /\ calls[k].partition < partition_count(plan.input)
                     /\ calls[k].ret.stream.limit = plan.limit
                     /\ calls[k].ret.stream.current_len = 0
                     /\ calls[k].ret.stream.input
                          = Some(plan.input.partitions[calls[k].partition + 1])
                     /\ origin[calls[k].id] = plan.input.partitions[calls[k].partition + 1]
                     /\ \A j \in 1..Len(calls) :
                          (j # k /\ calls[j].ret.tag = "Ok") => calls[j].id # calls[k].id
        /\ \A s \in Ids :
             SignalledEnd(s)
               => SumRows(Forwarded(s))
                    = Min(plan.limit, total_input_rows(origin[s])))
  /\ [][\A s \in Ids :
          (s <= Len(log') /\ log'[s] # log[s])
            => \A t \in Ids \ {s} : streams'[t] = streams[t] /\ log'[t] = log[t]]_vars

\* the streams of partitions 0 and 1 are both drained and together forwarded
\* more rows than the limit
C10_Witness ==
  /\ plan.variant = "local"
  /\ \E j, k \in 1..Len(calls) :
       /\ calls[j].partition = 0 /\ calls[j].ret.tag = "Ok"
       /\ calls[k].partition = 1 /\ calls[k].ret.tag = "Ok"
       /\ SignalledEnd(calls[j].id) /\ SignalledEnd(calls[k].id)
       /\ Len(log[calls[j].id]) = 2 /\ Len(log[calls[k].id]) = 2
       /\ SumRows(Forwarded(calls[j].id)) + SumRows(Forwarded(calls[k].id)) > plan.limit
       /\ SumRows(Forwarded(calls[j].id)) = Min(plan.limit, total_input_rows(origin[calls[j].id]))

\* C11: in every state 0 <= current_len <= limit; no step lowers current_len;
\* and no step gives a stream whose input is None an input again.
C11_CountBoundedMonotone ==
  /\ [](\A s \in Ids : /\ 0 <= streams[s].current_len
                       /\ streams[s].current_len <= streams[s].limit)
  /\ [][\A s \in Ids :
          /\ streams'[s].current_len >= streams[s].current_len
          /\ streams[s].input = None => streams'[s].input = None]_vars

\* a batch was truncated at a limit above zero, which released the handle,
\* and the stream was pulled again
C11_Witness ==
  \E s \in Ids : \E i \in 1..(Len(log[s]) - 1) :
    /\ streams[s].limit > 0
    /\ IsBatch(log[s][i].up) /\ IsBatch(log[s][i].ret)
    /\ log[s][i].ret # log[s][i].up
    /\ ~log[s][i].post_input
    /\ streams[s].current_len = streams[s].limit
    /\ streams[s].input = None

\* C12: a pull made after the upstream handle was released returns
\* end-of-sequence at once: not not-ready, not a batch, not a failure; it does
\* not poll upstream and leaves the running count and the handle as they were.
C12_EndAfterRelease ==
  \A s \in Ids : \A i \in 1..Len(log[s]) :
    ~log[s][i].pre_input
      => /\ log[s][i].ret = Ready(None)
         /\ log[s][i].up = NotPolled
         /\ log[s][i].post_len = log[s][i].pre_len
         /\ ~log[s][i].post_input

\* two pulls were made after the handle was released
C12_Witness ==
  \E s \in Ids : \E i \in 1..(Len(log[s]) - 1) :
    /\ ~log[s][i].pre_input
    /\ ~log[s][i + 1].pre_input
    /\ log[s][i + 1].ret = Ready(None)

\* C18: the upstream handle is released only in a pull in which upstream
\* yielded a batch and the cap was hit (the batch was suppressed or truncated),
\* so a stream without its handle has current_len = limit; a pull in which
\* upstream ended or failed with current_len < limit leaves the handle held.
C18_ReleaseOnlyAtCap ==
  \A s \in Ids :
    /\ streams[s].input = None => streams[s].current_len = streams[s].limit
    /\ \A i \in 1..Len(log[s]) :
         /\ (log[s][i].pre_input /\ ~log[s][i].post_input)
              => /\ IsBatch(log[s][i].up)
                 /\ log[s][i].post_len = streams[s].limit
                 /\ \/ IsEnd(log[s][i].ret)
                    \/ /\ IsBatch(log[s][i].ret)
                       /\ num_rows(log[s][i].ret.item.batch)
                            < num_rows(log[s][i].up.item.batch)
         /\ ((IsEnd(log[s][i].up) \/ IsErr(log[s][i].up))
               /\ log[s][i].post_len < streams[s].limit)
              => log[s][i].post_input

\* upstream failed and later ended below the limit with the handle still held,
\* or failed below the limit and a later batch was truncated
C18_Witness ==
  \E s \in Ids : \E i, j \in 1..Len(log[s]) :
    /\ i < j
    /\ IsErr(log[s][i].up) /\ log[s][i].post_len < streams[s].limit
    /\ log[s][i].post_input
    /\ IsBatch(log[s][j].up) /\ IsBatch(log[s][j].ret)
    /\ ~log[s][j].post_input

\* C19: a pull in which upstream is not ready returns not-ready with the same
\* count, the handle held and no upstream item consumed; a pull in which
\* upstream yields a failure or end-of-sequence changes neither the count nor
\* the forwarded rows.
C19_NoProgressPullsChangeNothing ==
  /\ [](\A s \in Ids : \A i \in 1..Len(log[s]) :
          /\ log[s][i].up = Pending
               => /\ log[s][i].ret = Pending
                  /\ log[s][i].post_len = log[s][i].pre_len
                  /\ log[s][i].post_input
          /\ (IsErr(log[s][i].up) \/ IsEnd(log[s][i].up))
               => /\ log[s][i].post_len = log[s][i].pre_len
                  /\ ~IsBatch(log[s][i].ret))
  /\ [][\A s \in Ids :
          (/\ Len(log'[s]) = Len(log[s]) + 1
           /\ ~IsBatch(log'[s][Len(log'[s])].up)
           /\ log'[s][Len(log'[s])].up # NotPolled)
            => /\ streams'[s].current_len = streams[s].current_len
               /\ streams'[s].input # None
               /\ Received(s)' = Received(s)
               /\ Forwarded(s)' = Forwarded(s)
               /\ log'[s][Len(log'[s])].up = Pending
                    => streams'[s].input.value.parts = streams[s].input.value.parts]_vars

\* one stream saw upstream not ready, then fail, then end
C19_Witness ==
  \E s \in Ids : \E i, j, k \in 1..Len(log[s]) :
    /\ i < j /\ j < k
    /\ log[s][i].up = Pending /\ log[s][i].ret = Pending
    /\ IsErr(log[s][j].up)
    /\ IsEnd(log[s][k].up)
    /\ streams[s].input # None

\* the pulls of stream s in which the received batch was dropped entirely
Suppressed(s) ==
  {i \in 1..Len(log[s]) : IsBatch(log[s][i].up) /\ ~IsBatch(log[s][i].ret)}

\* the pulls of stream s in which the received batch was cut short
Truncated(s) ==
  {i \in 1..Len(log[s]) :
     /\ IsBatch(log[s][i].up) /\ IsBatch(log[s][i].ret)
     /\ num_rows(log[s][i].ret.item.batch) < num_rows(log[s][i].up.item.batch)}

\* C20: a stream suppresses at most one received batch, only in a pull that
\* starts with current_len = limit and the handle held, and that pull returns
\* end-of-sequence; no stream both truncates and suppresses; every received
\* batch that is neither suppressed nor truncated is forwarded unchanged.
C20_AtMostOneSuppressed ==
  \A s \in Ids :
    /\ Cardinality(Suppressed(s)) <= 1
    /\ \A i \in Suppressed(s) :
         /\ log[s][i].pre_len = streams[s].limit
         /\ log[s][i].pre_input
         /\ IsEnd(log[s][i].ret)
    /\ ~(Suppressed(s) # {} /\ Truncated(s) # {})
    /\ \A i \in 1..Len(log[s]) :
         (IsBatch(log[s][i].up) /\ i \notin Suppressed(s) \cup Truncated(s))
           => log[s][i].ret = log[s][i].up

\* after a batch was forwarded whole and landed exactly on a limit above zero,
\* the next received batch was suppressed, and the stream was pulled again
C20_Witness ==
  \E s \in Ids : \E i \in 2..(Len(log[s]) - 1) :
    /\ streams[s].limit > 0
    /\ i \in Suppressed(s)
    /\ num_rows(log[s][i].up.item.batch) > 0
    /\ \E j \in 1..(i - 1) : log[s][j].ret = log[s][j].up /\ IsBatch(log[s][j].up)

\* C14: for 0 <= n <= num_rows(batch), truncate_batch(batch, n) does not fail
\* and returns a batch with the schema of its input whose every column is the
\* first n rows of the input's column; for n = num_rows(batch) the result
\* equals the input; the input batch is left as it was.
C14_TruncateTakesFirstRows ==
  /\ []((/\ reply.call = "truncate_batch"
         /\ reply.ret # NotReturned
         /\ reply.n <= num_rows(reply.batch))
          => /\ reply.ret # Panic
             /\ reply.ret.schema = reply.batch.schema
             /\ num_columns(reply.ret) = num_columns(reply.batch)
             /\ \A c \in 1..num_columns(reply.batch) :
                  /\ Len(reply.ret.columns[c]) = reply.n
                  /\ \A k \in 1..reply.n :
                       reply.ret.columns[c][k] = reply.batch.columns[c][k]
             /\ reply.n = num_rows(reply.batch) => reply.ret = reply.batch)
  /\ [][reply.call = "truncate_batch" => reply'.batch = reply.batch]_vars

\* a batch of three rows was cut to its first two
C14_Witness ==
  /\ reply.call = "truncate_batch"
  /\ reply.ret # NotReturned
  /\ num_rows(reply.batch) = 3
  /\ reply.n = 2
  /\ num_rows(reply.ret) = 2

\* the cells of column c of a sequence of batches, in order
RECURSIVE ColumnOf(_, _)
ColumnOf(batches, c) ==
  IF batches = <<>> THEN <<>>
  ELSE Head(batches).columns[c] \o ColumnOf(Tail(batches), c)

\* the batches among the items of a script, in order
RECURSIVE ScriptBatches(_)
ScriptBatches(script) ==
  IF script = <<>> THEN <<>>
  ELSE (IF Head(script).tag = "Ok" THEN <<Head(script).batch>> ELSE <<>>)
       \o ScriptBatches(Tail(script))

IsPrefix(a, b) == Len(a) <= Len(b) /\ SubSeq(b, 1, Len(a)) = a

\* C16: in every column, the rows forwarded so far, concatenated in the order
\* of forwarding, are a prefix of the rows received so far, concatenated in
\* the order of receipt; once the stream has signalled end-of-sequence over a
\* failure-free upstream they are exactly the first min(limit, total) rows of
\* the upstream row sequence.
C16_ForwardedIsPrefix ==
  \A s \in Ids : \A c \in 1..NumColumns :
    /\ IsPrefix(ColumnOf(Forwarded(s), c), ColumnOf(Received(s), c))
    /\ (SignalledEnd(s) /\ FailureFree(origin[s]) /\ Len(origin[s].parts) = 1)
         => LET upstream == ColumnOf(ScriptBatches(origin[s].parts[1]), c)
            IN  ColumnOf(Forwarded(s), c)
                  = SubSeq(upstream, 1, Min(streams[s].limit, Len(upstream)))

\* a stream forwarded a batch whole, then the first rows of a longer batch,
\* and signalled end-of-sequence with upstream rows left over
C16_Witness ==
  \E s \in Ids :
    /\ SignalledEnd(s)
    /\ FailureFree(origin[s])
    /\ Len(Forwarded(s)) = 2
    /\ num_rows(Forwarded(s)[1]) > 0
    /\ Forwarded(s)[1] = Received(s)[1]
    /\ 0 < num_rows(Forwarded(s)[2])
    /\ num_rows(Forwarded(s)[2]) < num_rows(Received(s)[2])
    /\ total_input_rows(origin[s]) > streams[s].limit

\* C13: a LocalLimitExec reports the output partitioning of its child, with
\* the child's partition count, and requires no distribution of its child; a
\* GlobalLimitExec reports an output partitioning of one partition and
\* requires its child to be in a single partition.
C13_Partitioning ==
  /\ reply.call = "output_partitioning"
       => IF plan.variant = "local"
            THEN /\ reply.ret = child_output_partitioning(plan.input)
                 /\ Partitioning_partition_count(reply.ret) = Len(plan.input.partitions)
            ELSE Partitioning_partition_count(reply.ret) = 1
  /\ reply.call = "required_child_distribution"
       => IF plan.variant = "local"
            THEN reply.ret = UnspecifiedDistribution
            ELSE reply.ret = SinglePartition

\* a LocalLimitExec over a hash-partitioned child of two partitions was asked
\* for its output partitioning
C13_Witness ==
  /\ reply.call = "output_partitioning"
  /\ plan.variant = "local"
  /\ plan.input.partitioning.kind = "Hash"
  /\ Partitioning_partition_count(reply.ret) = 2

\* C15: with_new_children given exactly one child returns a node of the same
\* variant with the same limit over that child; given no child or two or more
\* it returns an Internal error and no node; the node it was called on is
\* unchanged.
C15_WithNewChildren ==
  /\ [](reply.call = "with_new_children"
          => IF Len(reply.children) = 1
               THEN /\ reply.ret.tag = "Ok"
                    /\ reply.ret.plan.variant = plan.variant
                    /\ reply.ret.plan.limit = plan.limit
                    /\ reply.ret.plan.input = reply.children[1]
               ELSE /\ reply.ret.tag = "Err"
                    /\ reply.ret.err.kind = "Internal")
  /\ [][plan' = plan]_vars

\* a node with a limit above zero was rebuilt over one child that is not the
\* child it had
C15_Witness ==
  /\ reply.call = "with_new_children"
  /\ Len(reply.children) = 1
  /\ reply.children[1] # plan.input
  /\ plan.limit > 0
  /\ reply.ret.tag = "Ok"

\* C17: when the consumer keeps pulling and upstream answers not-ready only
\* finitely often, a stream over a finite upstream eventually signals
\* end-of-sequence; a stream over an endless upstream of non-empty batches
\* does so too, and never receives more than limit + 1 batches.
C17_EventuallyEnds ==
  /\ <>(\A s \in Ids : SignalledEnd(s))
  /\ [](\A s \in Ids :
          IsEndless(origin[s]) => Len(Received(s)) <= streams[s].limit + 1)

\* a stream with a limit above zero over an endless upstream signalled
\* end-of-sequence after it had received limit + 1 batches
C17_Witness ==
  \E s \in Ids :
    /\ IsEndless(origin[s])
    /\ streams[s].limit > 0
    /\ SignalledEnd(s)
    /\ Len(Received(s)) = streams[s].limit + 1

====
